---- MODULE Spec2Model ----
(***************************************************************************)
(* Model of examples/rust_ws_client/src/main.rs: the metrics engine of the *)
(* websocket example client.  Three concurrent roles share state:          *)
(*   - the main task: startup (availability loop, two awaited sends), then *)
(*     the WS loop that updates the counters and forwards raw lines;       *)
(*   - the stats task: every 5 s reads the counters, appends a Snap to the *)
(*     timeline, prunes it, computes the 1/10/60 s rates, offers a table;  *)
(*   - the printer task: the single consumer of the bounded print channel. *)
(* Every Mutex acquisition of the source is one atomic step.               *)
(*                                                                         *)
(* Time is counted in units of 1/Res second so that Duration::as_secs      *)
(* (truncation) and Duration::as_secs_f64 (exact) are different functions. *)
(* A rate (f64 in the source) is kept as a reduced fraction <<num, den>>.  *)
(*                                                                         *)
(* Spec     : the whole program on a short run (a few messages and ticks). *)
(* SpecLong : the whole program on a quiet feed, for more than 60 s.       *)
(* SpecCalc : the three calc_rates calls of one tick on drawn inputs.      *)
(***************************************************************************)
EXTENDS Naturals, Integers, Sequences, FiniteSets, TLC

\* ----- bounds of the model
Res == 2              \* time units per second
MaxLag == 1           \* overshoot of the 5 s sleep, in time units, fixed per run
MaxAvail == 1         \* text messages received before the instrument list
MaxLines == 2         \* text messages received by the WS loop
MaxWork == 3          \* text messages plus ticks of one run of Spec
MaxTicksLong == 14    \* ticks of the stats task in SpecLong
MaxTL == 3            \* length of the timelines handed to calc_rates in SpecCalc
MaxLevel == 3         \* counter levels handed to calc_rates in SpecCalc
PRINT_BUFFER_SIZE == 2 \* channel capacity (10_000 in the source, scaled down)

\* ----- program constants
TICK_SECS == 5        \* Duration::from_secs(5)
RETAIN_SECS == 60     \* ... .as_secs() > 60
Windows == <<1, 10, 60>>

Instruments == {"A", "B"}
NoSymb == "-"

\* A text message as the WS loop classifies it (lines 203-227): a live "book"
\* event, a successful "get_last_event" wrapper of a book event, or any other
\* text (not JSON, no "ev", another "ev", a wrapper that fails a test of lines
\* 215-217); and the "symb" it carries (NoSymb when the field is missing).
Msgs ==
  [ev : {"book", "get_last_event"}, symb : Instruments \cup {NoSymb}]
    \cup [ev : {"other"}, symb : {NoSymb}]

NoMsg == [ev |-> "none", symb |-> NoSymb]

VARIABLES
  print_mode,        \* cfg.print_mode
  lag,               \* overshoot of each sleep of this run
  cap,               \* capacity the print channel was created with
  avail_left,        \* text messages the server still sends before the list
  lines_left,        \* text messages the server still sends to the WS loop
  ticks_left,        \* ticks still modelled
  main_pc,           \* position of the main task
  txt,               \* the message the WS loop is processing
  total_msgs, live_msgs, snap_msgs,
  live_instruments, snap_instruments,
  stats_pc,          \* position of the stats task
  now,               \* the stats task's `now`
  tm, lm, sm,        \* the stats task's copies of the counters
  li_set, si_set,    \* the stats task's clones of the sets
  li, si, union_insts,
  timeline,
  rates,             \* results of the three calc_rates calls
  chan,              \* lines queued in the print channel
  printed,           \* lines written to stdout by the printer
  sent,              \* history: lines the channel accepted
  noffered,          \* history: number of lines offered to the channel
  tick_seen          \* history: the counter store states since the current tick fired

vars == <<print_mode, lag, cap, avail_left, lines_left, ticks_left, main_pc, txt,
          total_msgs, live_msgs, snap_msgs, live_instruments, snap_instruments,
          stats_pc, now, tm, lm, sm, li_set, si_set, li, si, union_insts,
          timeline, rates, chan, printed, sent, noffered, tick_seen>>

cfgVars == <<print_mode, lag, cap>>
storeVars == <<total_msgs, live_msgs, snap_msgs, live_instruments, snap_instruments>>
statsLocals == <<now, tm, lm, sm, li_set, si_set, li, si, union_insts, rates>>
sinkVars == <<chan, printed, sent, noffered>>

\* ----- helpers

Max(a, b) == IF a >= b THEN a ELSE b
Min(a, b) == IF a <= b THEN a ELSE b

RECURSIVE Gcd(_, _)
Gcd(a, b) == IF b = 0 THEN a ELSE Gcd(b, a % b)

\* the f64 value n / d (d > 0), as a reduced fraction
Frac(n, d) == LET g == Gcd(n, d) IN <<n \div g, d \div g>>

ZeroRate == <<0, 1>>

\* Instant::duration_since: saturates at zero
DurationSince(later, earlier) == IF later >= earlier THEN later - earlier ELSE 0

\* Duration::as_secs: whole seconds, truncated
AsSecs(d) == d \div Res

\* usize::saturating_sub
SaturatingSub(a, b) == IF a >= b THEN a - b ELSE 0

Snap(t, total, live, snp, lis, sis, uis) ==
  [t |-> t, total_msgs |-> total, live_msgs |-> live, snap_msgs |-> snp,
   live_insts |-> lis, snap_insts |-> sis, union_insts |-> uis]

CounterStore ==
  [total_msgs |-> total_msgs, live_msgs |-> live_msgs, snap_msgs |-> snap_msgs,
   live_insts |-> Cardinality(live_instruments),
   snap_insts |-> Cardinality(snap_instruments),
   union_insts |-> Cardinality(live_instruments \cup snap_instruments)]

Line(kind) == [kind |-> kind, n |-> noffered + 1]

\* ----- the print channel

\* faulty variant: a full channel evicts its oldest line to take the new one
try_send_evict(q, line) ==
  IF Len(q) < cap THEN Append(q, line) ELSE Append(Tail(q), line)

\* Sender::try_send: the line is appended unless the channel is full
try_send(q, line) == IF Len(q) < cap THEN Append(q, line) ELSE q

\* a non-blocking offer of a line by any producer
Offer(kind) ==
  /\ chan' = try_send(chan, Line(kind))
  /\ sent' = IF Len(chan) < cap THEN Append(sent, Line(kind)) ELSE sent
  /\ noffered' = noffered + 1
  /\ UNCHANGED printed

Running == main_pc # "done"

\* the stats task is between the end of its sleep and the append of the Snap
InTick == stats_pc \in {"rd_tm", "rd_lm", "rd_sm", "rd_li", "rd_si", "push"}

\* history: a step of the WS loop that changes the counter store during a tick
Observe == tick_seen' = IF InTick THEN tick_seen \cup {CounterStore'} ELSE tick_seen

\* ----- the timeline

\* faulty variant: an entry is dropped as soon as its age reaches the horizon
RECURSIVE PruneAtHorizon(_, _)
PruneAtHorizon(tl, t) ==
  IF tl = <<>> THEN tl
  ELSE IF AsSecs(DurationSince(t, Head(tl).t)) >= RETAIN_SECS THEN PruneAtHorizon(Tail(tl), t)
  ELSE tl

\* faulty variant: nothing is ever dropped
PruneNone(tl, t) == tl

\* while let Some(front) = tl.front() { if age.as_secs() > 60 { pop_front } else { break } }
RECURSIVE Prune(_, _)
Prune(tl, t) ==
  IF tl = <<>> THEN tl
  ELSE IF AsSecs(DurationSince(t, Head(tl).t)) > RETAIN_SECS THEN Prune(Tail(tl), t)
  ELSE tl

\* faulty variant: the new Snap is pushed to the front
push_front_and_prune(tl, s) == Prune(<<s>> \o tl, s.t)

\* tl.push_back(Snap {..}) followed by the pruning loop, under one lock
push_and_prune(tl, s) == Prune(Append(tl, s), s.t)

\* faulty variant: the union is counted as the sum of the two sizes
union_count_sum(a, b) == Cardinality(a) + Cardinality(b)

\* li_set.union(&si_set).count()
union_count(a, b) == Cardinality(a \cup b)

\* ----- calc_rates

\* faulty variant: the scan runs from the front and takes the oldest entry of
\* age >= secs, as the comment of line 250 reads
ScanFront(tl, i, t, secs) ==
  LET hits == {j \in 1..i : AsSecs(DurationSince(t, tl[j].t)) >= secs}
  IN IF hits = {} THEN <<>> ELSE <<tl[CHOOSE j \in hits : \A h \in hits : j <= h]>>

\* for s in tl.iter().rev() { if age.as_secs() >= secs { base = Some(*s); break; } }
\* An Option is a sequence of length 0 or 1.
RECURSIVE ScanRev(_, _, _, _)
ScanRev(tl, i, t, secs) ==
  IF i = 0 THEN <<>>
  ELSE IF AsSecs(DurationSince(t, tl[i].t)) >= secs THEN <<tl[i]>>
  ELSE ScanRev(tl, i - 1, t, secs)

\* faulty variant: the base is always the earliest entry
SelectBaseEarliest(tl, t, secs) == IF tl # <<>> THEN <<Head(tl)>> ELSE <<>>

\* faulty variant: no fallback to the earliest entry
SelectBaseNoFallback(tl, t, secs) == ScanRev(tl, Len(tl), t, secs)

\* if base.is_none() { if let Some(first) = tl.front() { base = Some(*first); } }
SelectBase(tl, t, secs) ==
  LET scanned == ScanRev(tl, Len(tl), t, secs)
  IN IF scanned = <<>> THEN (IF tl # <<>> THEN <<Head(tl)>> ELSE <<>>) ELSE scanned

\* (q.saturating_sub(b.q)) as f64 / dt, dt = as_secs_f64().max(1.0)
Rate(q, bq, age) == Frac(SaturatingSub(q, bq) * Res, Max(age, Res))

\* faulty variant: without a base the rates are measured from zero over 1 s
calc_rates_from_zero(tl, t, secs, ctm, clm, csm, cli, csi, cui) ==
  LET base == SelectBase(tl, t, secs)
      b == IF base # <<>> THEN base[1] ELSE Snap(t, 0, 0, 0, 0, 0, 0)
      age == DurationSince(t, b.t)
  IN [mps_total |-> Rate(ctm, b.total_msgs, age),
      mps_live |-> Rate(clm, b.live_msgs, age),
      mps_snap |-> Rate(csm, b.snap_msgs, age),
      ips_live |-> Rate(cli, b.live_insts, age),
      ips_snap |-> Rate(csi, b.snap_insts, age)]

calc_rates(tl, t, secs, ctm, clm, csm, cli, csi, cui) ==
  LET base == SelectBase(tl, t, secs)
  IN IF base # <<>>
     THEN LET b == base[1]
              age == DurationSince(t, b.t)
          IN [mps_total |-> Rate(ctm, b.total_msgs, age),
              mps_live |-> Rate(clm, b.live_msgs, age),
              mps_snap |-> Rate(csm, b.snap_msgs, age),
              ips_live |-> Rate(cli, b.live_insts, age),
              ips_snap |-> Rate(csi, b.snap_insts, age)]
     ELSE [mps_total |-> ZeroRate, mps_live |-> ZeroRate, mps_snap |-> ZeroRate,
           ips_live |-> ZeroRate, ips_snap |-> ZeroRate]

NoRates ==
  [mps_total |-> ZeroRate, mps_live |-> ZeroRate, mps_snap |-> ZeroRate,
   ips_live |-> ZeroRate, ips_snap |-> ZeroRate]

\* ----- initial states

InitCommon ==
  /\ main_pc = "avail"
  /\ txt = NoMsg
  /\ total_msgs = 0 /\ live_msgs = 0 /\ snap_msgs = 0
  /\ live_instruments = {} /\ snap_instruments = {}
  /\ stats_pc = "off"
  /\ now = 0
  /\ tm = 0 /\ lm = 0 /\ sm = 0
  /\ li_set = {} /\ si_set = {}
  /\ li = 0 /\ si = 0 /\ union_insts = 0
  /\ timeline = <<>>
  /\ rates = [w \in {1, 10, 60} |-> NoRates]
  /\ chan = <<>> /\ printed = <<>> /\ sent = <<>> /\ noffered = 0
  /\ tick_seen = {}

\* the program after the printer task is spawned (line 93)
Init ==
  /\ InitCommon
  /\ print_mode \in {"stats", "ws", "both"}
  /\ lag = 0
  /\ cap = PRINT_BUFFER_SIZE
  /\ avail_left = MaxAvail
  /\ lines_left \in 1..MaxLines
  /\ ticks_left = MaxWork - lines_left

\* ----- the main task

\* faulty variant: the WS loop forwards in mode "ws" only
ForwardsWsOnly == print_mode = "ws"

\* the WS loop forwards the raw line only in modes "ws" and "both"
Forwards == print_mode = "ws" \/ print_mode = "both"

\* lines 98-105: the availability answer arrives, the loop breaks
AvailRecvList ==
  /\ Running /\ main_pc = "avail"
  /\ main_pc' = "got"
  /\ UNCHANGED <<cfgVars, avail_left, lines_left, ticks_left, txt, storeVars,
                 stats_pc, statsLocals, timeline, sinkVars, tick_seen>>

\* lines 98-106: any other text message is offered to the printer
AvailRecvOther ==
  /\ Running /\ main_pc = "avail" /\ avail_left > 0
  /\ avail_left' = avail_left - 1
  /\ IF print_mode # "stats" THEN Offer("ws") ELSE UNCHANGED sinkVars
  /\ UNCHANGED <<cfgVars, lines_left, ticks_left, main_pc, txt, storeVars,
                 stats_pc, statsLocals, timeline, tick_seen>>

\* Sender::send(..).await: completes once the channel has room
send_await(kind, next) ==
  /\ Len(chan) < cap
  /\ chan' = Append(chan, Line(kind))
  /\ sent' = Append(sent, Line(kind))
  /\ noffered' = noffered + 1
  /\ main_pc' = next
  /\ UNCHANGED <<cfgVars, avail_left, lines_left, ticks_left, txt, storeVars,
                 stats_pc, statsLocals, timeline, printed, tick_seen>>

\* line 111
SendGot == Running /\ main_pc = "got" /\ send_await("got", "sub")

\* lines 118-119
SendSubscribed == Running /\ main_pc = "sub" /\ send_await("sub", "spawn")

\* lines 122-196: the shared state is created and the stats task spawned
SpawnStats ==
  /\ Running /\ main_pc = "spawn"
  /\ main_pc' = "recv"
  /\ stats_pc' = IF print_mode = "stats" \/ print_mode = "both" THEN "sleep" ELSE "off"
  /\ UNCHANGED <<cfgVars, avail_left, lines_left, ticks_left, txt, storeVars,
                 statsLocals, timeline, sinkVars, tick_seen>>

Counted(m) == m.ev = "book" \/ m.ev = "get_last_event"

\* faulty variant: the message is received without being counted
WsRecvTextUncounted ==
  /\ Running /\ main_pc = "recv" /\ lines_left > 0
  /\ \E m \in Msgs :
       /\ txt' = m
       /\ main_pc' = IF Counted(m) THEN "count" ELSE "fwd"
  /\ lines_left' = lines_left - 1
  /\ UNCHANGED <<cfgVars, avail_left, ticks_left, storeVars,
                 stats_pc, statsLocals, timeline, sinkVars, tick_seen>>

\* lines 199-201: a text message arrives and is counted
WsRecvText ==
  /\ Running /\ main_pc = "recv" /\ lines_left > 0
  /\ \E m \in Msgs :
       /\ txt' = m
       /\ main_pc' = IF Counted(m) THEN "count" ELSE "fwd"
  /\ lines_left' = lines_left - 1
  /\ total_msgs' = total_msgs + 1
  /\ UNCHANGED <<cfgVars, avail_left, ticks_left, live_msgs, snap_msgs,
                 live_instruments, snap_instruments,
                 stats_pc, statsLocals, timeline, sinkVars>>
  /\ Observe

\* faulty variant: a snapshot event is counted as a live message as well
WsCountBoth ==
  /\ Running /\ main_pc = "count"
  /\ IF txt.ev = "book"
       THEN live_msgs' = live_msgs + 1 /\ UNCHANGED snap_msgs
       ELSE snap_msgs' = snap_msgs + 1 /\ live_msgs' = live_msgs + 1
  /\ main_pc' = IF txt.symb # NoSymb THEN "insert" ELSE "fwd"
  /\ UNCHANGED <<cfgVars, avail_left, lines_left, ticks_left, txt, total_msgs,
                 live_instruments, snap_instruments,
                 stats_pc, statsLocals, timeline, sinkVars>>
  /\ Observe

\* lines 208 and 218
WsCount ==
  /\ Running /\ main_pc = "count"
  /\ IF txt.ev = "book"
       THEN live_msgs' = live_msgs + 1 /\ UNCHANGED snap_msgs
       ELSE snap_msgs' = snap_msgs + 1 /\ UNCHANGED live_msgs
  /\ main_pc' = IF txt.symb # NoSymb THEN "insert" ELSE "fwd"
  /\ UNCHANGED <<cfgVars, avail_left, lines_left, ticks_left, txt, total_msgs,
                 live_instruments, snap_instruments,
                 stats_pc, statsLocals, timeline, sinkVars>>
  /\ Observe

\* lines 210 and 220
WsInsert ==
  /\ Running /\ main_pc = "insert"
  /\ IF txt.ev = "book"
       THEN /\ live_instruments' = live_instruments \cup {txt.symb}
            /\ UNCHANGED snap_instruments
       ELSE /\ snap_instruments' = snap_instruments \cup {txt.symb}
            /\ UNCHANGED live_instruments
  /\ main_pc' = "fwd"
  /\ UNCHANGED <<cfgVars, avail_left, lines_left, ticks_left, txt,
                 total_msgs, live_msgs, snap_msgs,
                 stats_pc, statsLocals, timeline, sinkVars>>
  /\ Observe

\* lines 231-233
WsForward ==
  /\ Running /\ main_pc = "fwd"
  /\ IF Forwards THEN Offer("ws") ELSE UNCHANGED sinkVars
  /\ main_pc' = "recv"
  /\ txt' = NoMsg
  /\ UNCHANGED <<cfgVars, avail_left, lines_left, ticks_left, storeVars,
                 stats_pc, statsLocals, timeline, tick_seen>>

\* lines 199 and 237: after its last message the server closes the stream,
\* main returns and the process exits
WsEnd ==
  /\ Running /\ main_pc = "recv" /\ lines_left = 0
  /\ main_pc' = "done"
  /\ UNCHANGED <<cfgVars, avail_left, lines_left, ticks_left, txt, storeVars,
                 stats_pc, statsLocals, timeline, sinkVars, tick_seen>>

\* ----- the printer task

\* faulty variant: the printer takes the newest queued line
PrinterRecvNewest ==
  /\ Running /\ chan # <<>>
  /\ printed' = Append(printed, chan[Len(chan)])
  /\ chan' = SubSeq(chan, 1, Len(chan) - 1)
  /\ UNCHANGED <<cfgVars, avail_left, lines_left, ticks_left, main_pc, txt, storeVars,
                 stats_pc, statsLocals, timeline, sent, noffered, tick_seen>>

\* line 93: while let Some(line) = print_rx.recv().await { println!("{line}"); }
PrinterRecv ==
  /\ Running /\ chan # <<>>
  /\ printed' = Append(printed, Head(chan))
  /\ chan' = Tail(chan)
  /\ UNCHANGED <<cfgVars, avail_left, lines_left, ticks_left, main_pc, txt, storeVars,
                 stats_pc, statsLocals, timeline, sent, noffered, tick_seen>>

\* ----- the stats task

StatsStep(from, to) == Running /\ stats_pc = from /\ stats_pc' = to

\* lines 144-145: the sleep ends and `now` is taken
StatsSleep ==
  /\ StatsStep("sleep", "rd_tm") /\ ticks_left > 0
  /\ ticks_left' = ticks_left - 1
  /\ now' = now + TICK_SECS * Res + lag
  /\ tick_seen' = {CounterStore}
  /\ UNCHANGED <<cfgVars, avail_left, lines_left, main_pc, txt, storeVars,
                 tm, lm, sm, li_set, si_set, li, si, union_insts, rates,
                 timeline, sinkVars>>

\* faulty variant: the tick takes the counter and resets it
StatsTakeTotal ==
  /\ StatsStep("rd_tm", "rd_lm")
  /\ tm' = total_msgs
  /\ total_msgs' = 0
  /\ UNCHANGED <<cfgVars, avail_left, lines_left, ticks_left, main_pc, txt,
                 live_msgs, snap_msgs, live_instruments, snap_instruments,
                 now, lm, sm, li_set, si_set, li, si, union_insts, rates,
                 timeline, sinkVars, tick_seen>>

\* line 148
StatsReadTotal ==
  /\ StatsStep("rd_tm", "rd_lm")
  /\ tm' = total_msgs
  /\ UNCHANGED <<cfgVars, avail_left, lines_left, ticks_left, main_pc, txt, storeVars,
                 now, lm, sm, li_set, si_set, li, si, union_insts, rates,
                 timeline, sinkVars, tick_seen>>

\* faulty variant: the live count is read from the wrong counter
StatsReadLiveFromTotal ==
  /\ StatsStep("rd_lm", "rd_sm")
  /\ lm' = total_msgs
  /\ UNCHANGED <<cfgVars, avail_left, lines_left, ticks_left, main_pc, txt, storeVars,
                 now, tm, sm, li_set, si_set, li, si, union_insts, rates,
                 timeline, sinkVars, tick_seen>>

\* line 149
StatsReadLive ==
  /\ StatsStep("rd_lm", "rd_sm")
  /\ lm' = live_msgs
  /\ UNCHANGED <<cfgVars, avail_left, lines_left, ticks_left, main_pc, txt, storeVars,
                 now, tm, sm, li_set, si_set, li, si, union_insts, rates,
                 timeline, sinkVars, tick_seen>>

\* line 150
StatsReadSnap ==
  /\ StatsStep("rd_sm", "rd_li")
  /\ sm' = snap_msgs
  /\ UNCHANGED <<cfgVars, avail_left, lines_left, ticks_left, main_pc, txt, storeVars,
                 now, tm, lm, li_set, si_set, li, si, union_insts, rates,
                 timeline, sinkVars, tick_seen>>

\* faulty variant: the tick takes the set and leaves it empty
StatsTakeLiveSet ==
  /\ StatsStep("rd_li", "rd_si")
  /\ li_set' = live_instruments
  /\ live_instruments' = {}
  /\ UNCHANGED <<cfgVars, avail_left, lines_left, ticks_left, main_pc, txt,
                 total_msgs, live_msgs, snap_msgs, snap_instruments,
                 now, tm, lm, sm, si_set, li, si, union_insts, rates,
                 timeline, sinkVars, tick_seen>>

\* line 152
StatsCloneLive ==
  /\ StatsStep("rd_li", "rd_si")
  /\ li_set' = live_instruments
  /\ UNCHANGED <<cfgVars, avail_left, lines_left, ticks_left, main_pc, txt, storeVars,
                 now, tm, lm, sm, si_set, li, si, union_insts, rates,
                 timeline, sinkVars, tick_seen>>

\* lines 153-156
StatsCloneSnap ==
  /\ StatsStep("rd_si", "push")
  /\ si_set' = snap_instruments
  /\ li' = Cardinality(li_set)
  /\ si' = Cardinality(si_set')
  /\ union_insts' = union_count(li_set, si_set')
  /\ UNCHANGED <<cfgVars, avail_left, lines_left, ticks_left, main_pc, txt, storeVars,
                 now, tm, lm, sm, li_set, rates, timeline, sinkVars, tick_seen>>

\* faulty variant: the Snap is appended only when the channel has room
StatsPushIfRoom ==
  /\ StatsStep("push", "calc1")
  /\ timeline' = IF Len(chan) < cap
                   THEN push_and_prune(timeline, Snap(now, tm, lm, sm, li, si, union_insts))
                   ELSE timeline
  /\ tick_seen' = {}
  /\ UNCHANGED <<cfgVars, avail_left, lines_left, ticks_left, main_pc, txt, storeVars,
                 statsLocals, sinkVars>>

\* lines 159-173
StatsPush ==
  /\ StatsStep("push", "calc1")
  /\ timeline' = push_and_prune(timeline, Snap(now, tm, lm, sm, li, si, union_insts))
  /\ tick_seen' = {}
  /\ UNCHANGED <<cfgVars, avail_left, lines_left, ticks_left, main_pc, txt, storeVars,
                 statsLocals, sinkVars>>

CalcPcs == <<"calc1", "calc10", "calc60", "emit">>

\* lines 176-178: one call of calc_rates per window
StatsCalc ==
  /\ \E k \in 1..3 :
       /\ StatsStep(CalcPcs[k], CalcPcs[k + 1])
       /\ rates' = [rates EXCEPT ![Windows[k]] =
                      calc_rates(timeline, now, Windows[k], tm, lm, sm, li, si, union_insts)]
  /\ UNCHANGED <<cfgVars, avail_left, lines_left, ticks_left, main_pc, txt, storeVars,
                 now, tm, lm, sm, li_set, si_set, li, si, union_insts,
                 timeline, sinkVars, tick_seen>>

\* faulty variant: the report is enqueued with send(..).await
StatsEmitAwait ==
  /\ StatsStep("emit", "sleep")
  /\ Len(chan) < cap
  /\ Offer("stats")
  /\ tm' = 0 /\ lm' = 0 /\ sm' = 0
  /\ li_set' = {} /\ si_set' = {}
  /\ li' = 0 /\ si' = 0 /\ union_insts' = 0
  /\ rates' = [w \in {1, 10, 60} |-> NoRates]
  /\ UNCHANGED <<cfgVars, avail_left, lines_left, ticks_left, main_pc, txt, storeVars,
                 now, timeline, tick_seen>>

\* lines 181-194: the table is rendered and offered to the printer; the
\* iteration ends and its locals go out of scope (`now` is kept as the clock)
StatsEmit ==
  /\ StatsStep("emit", "sleep")
  /\ Offer("stats")
  /\ tm' = 0 /\ lm' = 0 /\ sm' = 0
  /\ li_set' = {} /\ si_set' = {}
  /\ li' = 0 /\ si' = 0 /\ union_insts' = 0
  /\ rates' = [w \in {1, 10, 60} |-> NoRates]
  /\ UNCHANGED <<cfgVars, avail_left, lines_left, ticks_left, main_pc, txt, storeVars,
                 now, timeline, tick_seen>>

\* ----- specifications

Startup == AvailRecvList \/ AvailRecvOther \/ SendGot \/ SendSubscribed \/ SpawnStats

Ingest == WsRecvText \/ WsCount \/ WsInsert \/ WsForward \/ WsEnd

Stats ==
  \/ StatsSleep \/ StatsReadTotal \/ StatsReadLive \/ StatsReadSnap
  \/ StatsCloneLive \/ StatsCloneSnap \/ StatsPush \/ StatsCalc \/ StatsEmit

Next == Startup \/ Ingest \/ Stats \/ PrinterRecv

Spec == Init /\ [][Next]_vars

\* Runs in which the stats task is spawned: fewer messages on the feed than
\* MaxLines, and the more ticks the fewer messages. The stats task is a spawned tokio task: the runtime polls it
\* whenever its sleep has elapsed or it can continue, so a step of it that
\* stays possible is eventually taken. Nothing is assumed of the printer,
\* which may stall, nor of the server, which may send nothing more.
InitLive ==
  /\ InitCommon
  /\ print_mode \in {"stats", "both"}
  /\ lag = 0
  /\ cap = PRINT_BUFFER_SIZE
  /\ avail_left = MaxAvail
  /\ lines_left \in 0..(MaxLines - 1)
  /\ ticks_left = MaxLines - lines_left

SpecLive == InitLive /\ [][Next]_vars /\ WF_vars(Stats)

\* A long run on a quiet feed: after the subscription the server sends nothing,
\* and the channel is large enough for every line of the run, as 10_000 is
\* for the source.
InitLong ==
  /\ InitCommon
  /\ print_mode \in {"stats", "both"}
  /\ lag \in 0..MaxLag
  /\ cap = MaxAvail + MaxTicksLong + 2
  /\ avail_left = MaxAvail
  /\ lines_left = 0
  /\ ticks_left = MaxTicksLong

NextLong == Startup \/ Stats \/ PrinterRecv

SpecLong == InitLong /\ [][NextLong]_vars

\* ----- calc_rates on its own: the stats task stands before its three calls
\* with a timeline, a `now` and current counters drawn from bounded sets

\* counters after k rounds of a steady feed: 50 lines, 30 of them live and 20
\* snapshots, touching 3 and 2 new instruments of which 1 is shared
Profile(k) ==
  [total_msgs |-> 50 * k, live_msgs |-> 30 * k, snap_msgs |-> 20 * k,
   live_insts |-> 3 * k, snap_insts |-> 2 * k, union_insts |-> 4 * k]

CalcNow == RETAIN_SECS * Res + Res

\* ages of the drawn entries: 0, one unit, 1 s, just under 10 s, 10 s, 60 s
CalcAges == {0, 1, Res, 10 * Res - 1, 10 * Res, RETAIN_SECS * Res}

CalcEntries ==
  {[t |-> CalcNow - a] @@ Profile(k) : a \in CalcAges, k \in 0..MaxLevel}

\* timelines of at most MaxTL entries, oldest first
CalcTimelines ==
  {tl \in UNION {[1..n -> CalcEntries] : n \in 0..MaxTL} :
     \A i \in 1..(Len(tl) - 1) : tl[i].t <= tl[i + 1].t}

InitCalc ==
  /\ print_mode = "stats" /\ lag = 0 /\ cap = PRINT_BUFFER_SIZE
  /\ avail_left = 0 /\ lines_left = 0 /\ ticks_left = 0
  /\ main_pc = "recv" /\ txt = NoMsg
  /\ total_msgs = 0 /\ live_msgs = 0 /\ snap_msgs = 0
  /\ live_instruments = {} /\ snap_instruments = {}
  /\ stats_pc = "calc1"
  /\ now = CalcNow
  /\ \E k \in 0..MaxLevel :
       /\ tm = Profile(k).total_msgs /\ lm = Profile(k).live_msgs
       /\ sm = Profile(k).snap_msgs
       /\ li = Profile(k).live_insts /\ si = Profile(k).snap_insts
       /\ union_insts = Profile(k).union_insts
  /\ li_set = {} /\ si_set = {}
  /\ timeline \in CalcTimelines
  /\ rates = [w \in {1, 10, 60} |-> NoRates]
  /\ chan = <<>> /\ printed = <<>> /\ sent = <<>> /\ noffered = 0
  /\ tick_seen = {}

NextCalc == StatsCalc

SpecCalc == InitCalc /\ [][NextCalc]_vars

\* ----- one tick on a drawn history: the stats task stands before its push
\* with the Snaps of the previous ticks, 5 s apart, in the timeline; the
\* counters grow from tick to tick by levels of Profile

\* the counter levels of the previous ticks and of this one, in tick order
TickLevels ==
  {lv \in UNION {[1..n -> 0..MaxLevel] : n \in 1..(MaxTL + 1)} :
     \A i \in 1..(Len(lv) - 1) : lv[i] <= lv[i + 1]}

InitTick ==
  /\ print_mode = "stats" /\ lag = 0 /\ cap = PRINT_BUFFER_SIZE
  /\ avail_left = 0 /\ lines_left = 0 /\ ticks_left = 0
  /\ main_pc = "recv" /\ txt = NoMsg
  /\ total_msgs = 0 /\ live_msgs = 0 /\ snap_msgs = 0
  /\ live_instruments = {} /\ snap_instruments = {}
  /\ stats_pc = "push"
  /\ \E lv \in TickLevels :
       /\ timeline = [i \in 1..(Len(lv) - 1) |->
                        [t |-> i * TICK_SECS * Res] @@ Profile(lv[i])]
       /\ now = Len(lv) * TICK_SECS * Res
       /\ tm = Profile(lv[Len(lv)]).total_msgs /\ lm = Profile(lv[Len(lv)]).live_msgs
       /\ sm = Profile(lv[Len(lv)]).snap_msgs
       /\ li = Profile(lv[Len(lv)]).live_insts /\ si = Profile(lv[Len(lv)]).snap_insts
       /\ union_insts = Profile(lv[Len(lv)]).union_insts
  /\ li_set = {} /\ si_set = {}
  /\ rates = [w \in {1, 10, 60} |-> NoRates]
  /\ chan = <<>> /\ printed = <<>> /\ sent = <<>> /\ noffered = 0
  /\ tick_seen = {}

NextTick == StatsPush \/ StatsCalc

SpecTick == InitTick /\ [][NextTick]_vars

\* ----- the claims

Last(q) == q[Len(q)]

IsPrefix(a, b) == Len(a) <= Len(b) /\ SubSeq(b, 1, Len(a)) = a

\* C1: the channel never holds more than its capacity; an offer made while it
\* holds exactly `capacity` lines leaves the queued lines and their order as
\* they were; and as long as the printer has taken nothing, the channel holds
\* exactly the first min(offered, capacity) lines offered, in order (capacity 3:
\* a, b, c, d offered leaves a, b, c).
C1_DropOnFull ==
  /\ [](Len(chan) <= cap)
  /\ [][(noffered' # noffered /\ Len(chan) = cap) => chan' = chan]_vars
  /\ [](printed = <<>> =>
          /\ Len(chan) = Min(noffered, cap)
          /\ \A i \in 1..Len(chan) : chan[i].n = i)

\* more lines than the capacity were offered and the printer took none
C1_Witness == noffered > cap /\ printed = <<>> /\ Len(chan) = cap

\* C2: the lines the printer has written are a prefix of the lines the channel
\* accepted, in the order it accepted them, and no line is written twice.
C2_Fifo ==
  /\ IsPrefix(printed, sent)
  /\ \A i, j \in 1..Len(printed) : i < j => printed[i].n < printed[j].n

\* the printer wrote two lines with a dropped line between them
C2_Witness ==
  \E i \in 1..(Len(printed) - 1) : printed[i + 1].n > printed[i].n + 1

\* C3: no producer ever waits at an enqueue for the printer to make room.
C3_ProducersNeverBlock ==
  ~(Running /\ main_pc \in {"got", "sub"} /\ Len(chan) >= cap)

Fields ==
  {"total_msgs", "live_msgs", "snap_msgs", "live_insts", "snap_insts", "union_insts"}

Appending == stats_pc = "push" /\ stats_pc' = "calc1"

\* C4 as claimed: every Snap appended equals, in all six quantities, one
\* counter store state reached between the tick firing and the append.
C4_AtomicSnapshot ==
  [][Appending =>
       \E s \in tick_seen : \A f \in Fields : s[f] = Last(timeline')[f]]_vars

\* C4 as amended: every quantity of a Snap appended is the value that quantity
\* had in some counter store state reached between the tick firing and the
\* append; the six values need not come from one state.
C4_PerFieldSnapshot ==
  [][Appending =>
       \A f \in Fields : \E s \in tick_seen : s[f] = Last(timeline')[f]]_vars

\* a Snap was appended that records more live messages than messages
C4_Witness ==
  /\ stats_pc = "calc1"
  /\ Last(timeline).live_msgs > Last(timeline).total_msgs

\* C5: no step lowers total_msgs, live_msgs or snap_msgs, and no step removes
\* an element of live_instruments or snap_instruments.
C5_Monotone ==
  [][/\ total_msgs' >= total_msgs
     /\ live_msgs' >= live_msgs
     /\ snap_msgs' >= snap_msgs
     /\ live_instruments \subseteq live_instruments'
     /\ snap_instruments \subseteq snap_instruments']_vars

\* counters and sets have grown, a tick has read them, the printer has printed
C5_Witness ==
  /\ live_msgs >= 1 /\ snap_instruments # {}
  /\ timeline # <<>> /\ Last(timeline).total_msgs >= 1
  /\ printed # <<>>

\* C6: every Snap of the timeline has max(live_insts, snap_insts) <=
\* union_insts <= live_insts + snap_insts, and the Snap just appended records
\* the sizes of the two cloned sets and the size of their union.
C6_Union ==
  /\ \A i \in 1..Len(timeline) :
       /\ Max(timeline[i].live_insts, timeline[i].snap_insts) <= timeline[i].union_insts
       /\ timeline[i].union_insts <= timeline[i].live_insts + timeline[i].snap_insts
  /\ stats_pc \in {"calc1", "calc10", "calc60", "emit"} =>
       /\ Last(timeline).live_insts = Cardinality(li_set)
       /\ Last(timeline).snap_insts = Cardinality(si_set)
       /\ Last(timeline).union_insts = Cardinality(li_set \cup si_set)

\* a Snap of two overlapping sets, one of them filled while the tick ran (the
\* snapshot message was counted after the tick had read snap_msgs)
C6_Witness ==
  /\ stats_pc = "calc1"
  /\ Last(timeline).live_insts = 1 /\ Last(timeline).snap_insts = 1
  /\ Last(timeline).union_insts = 1
  /\ Last(timeline).snap_msgs = 0

\* C7: no entry of the timeline is more than 60 whole seconds older than the
\* newest one; when the ticks are exactly 5 s apart no entry is older than
\* 60 s, and from the tick at 65 s on the entry of age exactly 60 s is there.
C7_Retention ==
  /\ \A i \in 1..Len(timeline) :
       /\ AsSecs(Last(timeline).t - timeline[i].t) <= RETAIN_SECS
       /\ lag = 0 => Last(timeline).t - timeline[i].t <= RETAIN_SECS * Res
  /\ (lag = 0 /\ timeline # <<>>
        /\ Last(timeline).t >= (RETAIN_SECS + TICK_SECS) * Res) =>
       \E i \in 1..Len(timeline) : Last(timeline).t - timeline[i].t = RETAIN_SECS * Res

\* ticks 5 s apart, the first entry has been evicted, the oldest is 60 s old
C7_Witness ==
  /\ lag = 0 /\ timeline # <<>>
  /\ Head(timeline).t > TICK_SECS * Res
  /\ Last(timeline).t - Head(timeline).t = RETAIN_SECS * Res

\* C8: the timeline is in non-decreasing timestamp order; a step that changes
\* it appends one Snap stamped `now` and removes only a front segment whose
\* entries are all more than 60 s older than that Snap, leaving every other
\* entry as it was; and once a tick has appended, the timeline is not empty.
C8_TimelineStructure ==
  /\ [](\A i \in 1..(Len(timeline) - 1) : timeline[i].t <= timeline[i + 1].t)
  /\ [][timeline' # timeline =>
          \E k \in 0..Len(timeline) :
            /\ Last(timeline').t = now
            /\ timeline' = SubSeq(timeline \o <<Last(timeline')>>, k + 1, Len(timeline) + 1)
            /\ \A i \in 1..k : now - timeline[i].t > RETAIN_SECS * Res]_vars
  /\ [][timeline # <<>> => timeline' # <<>>]_vars
  /\ []((now > 0 /\ ~InTick) => timeline # <<>>)

\* an entry has been removed from the front
C8_Witness == timeline # <<>> /\ Head(timeline).t > TICK_SECS * Res + lag

\* the call of calc_rates for Windows[k] has returned
Called(k) == stats_pc \in {CalcPcs[j] : j \in (k + 1)..4}

\* the base of the specified algorithm: the newest entry whose age is >= w
\* seconds, or the oldest entry when there is none
SpecBase(tl, t, w) ==
  LET old == {i \in 1..Len(tl) : t - tl[i].t >= w * Res}
  IN IF old # {} THEN tl[CHOOSE i \in old : \A j \in old : j <= i] ELSE tl[1]

\* r is max(q - qb, 0) / max(age, 1 s), age in time units
RateIs(r, q, qb, age) ==
  /\ r[2] > 0
  /\ r[1] * Max(age, Res) = Max(q - qb, 0) * Res * r[2]

RatesMatch(r, w) ==
  LET b == SpecBase(timeline, now, w)
      age == now - b.t
  IN /\ RateIs(r.mps_total, tm, b.total_msgs, age)
     /\ RateIs(r.mps_live, lm, b.live_msgs, age)
     /\ RateIs(r.mps_snap, sm, b.snap_msgs, age)
     /\ RateIs(r.ips_live, li, b.live_insts, age)
     /\ RateIs(r.ips_snap, si, b.snap_insts, age)



C10_WindowFallback ==
  (Len(timeline) = 1 /\ Called(3)) =>
    /\ rates[1] = rates[10]
    /\ rates[10] = rates[60]

\* one entry just under 10 s old: window 1 finds it by the scan, windows 10
\* and 60 by the fallback, and the rates are not zero
C10_Witness ==
  /\ Len(timeline) = 1 /\ Called(3)
  /\ now - timeline[1].t = 10 * Res - 1
  /\ rates[60].mps_total # ZeroRate

RateNames == {"mps_total", "mps_live", "mps_snap", "ips_live", "ips_snap"}

\* C11: with an empty timeline calc_rates returns 0 for each of the five
\* rates, for each of the windows 1, 10 and 60 and whatever the current
\* counters are; and every call of calc_rates, on any timeline, returns five
\* rates that are numbers (fractions with a positive denominator).
C11_ZeroHistory ==
  \A k \in 1..3 :
    Called(k) =>
      /\ DOMAIN rates[Windows[k]] = RateNames
      /\ \A f \in RateNames :
           /\ rates[Windows[k]][f] \in Nat \X (Nat \ {0})
           /\ timeline = <<>> => rates[Windows[k]][f] = <<0, 1>>

\* the three calls have returned on an empty timeline with counters that are
\* not zero
C11_Witness ==
  /\ timeline = <<>> /\ Called(3)
  /\ tm > 0 /\ lm > 0 /\ sm > 0 /\ li > 0 /\ si > 0

\* a step in which the availability loop receives a text message that is not
\* the availability answer
StartupRecvOther == main_pc = "avail" /\ avail_left' # avail_left

\* the step in which the availability loop receives the availability answer
StartupRecvAnswer == main_pc = "avail" /\ main_pc' = "got"

\* the step that ends the WS loop's handling of a received text message
LineHandled == main_pc \in {"count", "insert", "fwd"} /\ main_pc' = "recv"

\* the step offers exactly one line, and it is a raw line if it is accepted
OffersRaw ==
  /\ noffered' = noffered + 1
  /\ Len(chan) < cap => (chan' = Append(chan, Last(chan')) /\ Last(chan').kind = "ws")
  /\ Len(chan) >= cap => chan' = chan

OffersNothing == noffered' = noffered /\ chan' = chan /\ sent' = sent

\* what print_mode decides besides the forwarding of received messages: no
\* raw line is accepted in mode "stats"; in mode "ws" the stats task never
\* runs, the timeline stays empty and no report is accepted; in modes "stats"
\* and "both" the stats task runs from the WS loop on and every tick ends by
\* offering one report
ReportGating ==
  /\ [](print_mode = "stats" => \A i \in 1..Len(sent) : sent[i].kind # "ws")
  /\ [](print_mode = "ws" =>
          /\ stats_pc = "off" /\ timeline = <<>> /\ now = 0
          /\ \A i \in 1..Len(sent) : sent[i].kind # "stats")
  /\ []((print_mode \in {"stats", "both"}
           /\ main_pc \in {"recv", "count", "insert", "fwd", "done"}) => stats_pc # "off")
  /\ [][(stats_pc' = "sleep" /\ stats_pc \notin {"sleep", "off"}) =>
          /\ stats_pc = "emit"
          /\ noffered' = noffered + 1
          /\ Len(chan) < cap => Last(chan').kind = "stats"]_vars

AnyTextReceived == StartupRecvOther \/ StartupRecvAnswer \/ LineHandled

OtherTextReceived == StartupRecvOther \/ LineHandled

\* C12 as claimed: in mode "stats" no received text message is offered to the
\* printer and every tick ends by offering a report; in mode "ws" every
\* received text message is offered, the stats task never runs and the
\* timeline stays empty; in mode "both" every received text message is offered
\* and every tick ends by offering a report; in the availability loop as in the
\* WS loop.
C12_Gating ==
  /\ [][(print_mode = "stats" /\ AnyTextReceived) => OffersNothing]_vars
  /\ [][(print_mode \in {"ws", "both"} /\ AnyTextReceived) => OffersRaw]_vars
  /\ ReportGating

\* C12 as amended: the same, for every received text message other than the
\* availability answer; the availability answer is offered in no mode.
C12_GatingButAnswer ==
  /\ [][(print_mode = "stats" /\ OtherTextReceived) => OffersNothing]_vars
  /\ [][(print_mode \in {"ws", "both"} /\ OtherTextReceived) => OffersRaw]_vars
  /\ [][StartupRecvAnswer => OffersNothing]_vars
  /\ ReportGating

\* mode "both": a message before the availability answer, the two startup
\* lines and one message of the WS loop have been offered, and a tick has
\* offered its report
C12_Witness ==
  /\ print_mode = "both" /\ main_pc = "recv"
  /\ avail_left = MaxAvail - 1 /\ total_msgs = 1
  /\ stats_pc = "sleep" /\ Len(timeline) = 1
  /\ noffered = 5

\* C13: when the printer has stopped, every line the channel accepted has
\* been written: once main has returned and the process has exited, no
\* accepted line is left in the channel.
C13_NothingLeftAtExit == ~Running => (chan = <<>> /\ printed = sent)

\* the six quantities of the running tick, as a Snap
Current == Snap(now, tm, lm, sm, li, si, union_insts)

\* C14: each of the six quantities is non-decreasing along the timeline from
\* oldest to newest, and while a tick calculates its rates every current
\* quantity is >= that quantity of the base calc_rates selects, for each of
\* the windows 1, 10 and 60: saturating_sub never clamps.
C14_ClampNeverExercised ==
  /\ \A i \in 1..(Len(timeline) - 1) :
       \A f \in Fields : timeline[i][f] <= timeline[i + 1][f]
  /\ stats_pc \in {"calc1", "calc10", "calc60", "emit"} =>
       \A k \in 1..3 :
         /\ SelectBase(timeline, now, Windows[k]) # <<>>
         /\ \A f \in Fields :
              Current[f] >= SelectBase(timeline, now, Windows[k])[1][f]

\* the second tick calculates rates against the first tick's Snap, and a live
\* message was ingested between the two
C14_Witness ==
  /\ stats_pc = "emit" /\ Len(timeline) = 2
  /\ SelectBase(timeline, now, 1) = <<timeline[1]>>
  /\ \A f \in {"total_msgs", "live_msgs", "live_insts", "union_insts"} :
       Current[f] > timeline[1][f]

\* the stats task is between the end of its sleep and the try_send of the report
TickRunning == stats_pc \notin {"off", "sleep"}

\* C15: while the process runs, a tick that has fired can always take its
\* next step, whatever the channel holds and whatever the main task does;
\* it goes on through the reads, the append, the three calls of calc_rates
\* and the try_send of the report and is back in its sleep, or the process
\* has exited before; and a sleeping stats task fires its next tick, or the
\* process has exited before (in the model, as long as the run has ticks left).
C15_ReporterNeverStuck ==
  /\ []((Running /\ TickRunning) => ENABLED Stats)
  /\ TickRunning ~> (stats_pc = "sleep" \/ ~Running)
  /\ (stats_pc = "sleep" /\ ticks_left > 0) ~> (stats_pc = "rd_tm" \/ ~Running)

\* a tick has come back to its sleep although the printer never took a line
\* and the channel was full when the report was offered
C15_Witness ==
  /\ stats_pc = "sleep" /\ timeline # <<>>
  /\ printed = <<>> /\ Len(chan) = cap
  /\ \A i \in 1..Len(chan) : chan[i].kind # "stats"

\* the entries of the timeline stamped with the time of the running tick
StampedNow == {i \in 1..Len(timeline) : timeline[i].t = now}

Emitting == stats_pc = "emit" /\ stats_pc' = "sleep"

\* C16: a tick appends nothing before its append step and no rate is
\* calculated before it; from the append step to the end of the tick the
\* timeline holds exactly one Snap of this tick, the newest, carrying the six
\* values the tick read; only the append step changes the timeline. The step
\* that offers the report changes neither the counter store nor the timeline
\* nor the lines already queued or written: a full channel stays as it is, a
\* channel with room gains the report at its end.
C16_AppendThenReport ==
  /\ [](InTick => (StampedNow = {} /\ rates = [w \in {1, 10, 60} |-> NoRates]))
  /\ [](stats_pc \in {"calc1", "calc10", "calc60", "emit"} =>
          (StampedNow = {Len(timeline)} /\ Last(timeline) = Current))
  /\ [][timeline' # timeline => Appending]_vars
  /\ [][Appending => Len(timeline') <= Len(timeline) + 1]_vars
  /\ [][Emitting =>
          /\ UNCHANGED <<storeVars, timeline, printed, main_pc>>
          /\ noffered' = noffered + 1
          /\ Len(chan) >= cap => (chan' = chan /\ sent' = sent)
          /\ Len(chan) < cap =>
               /\ chan' = Append(chan, Last(chan'))
               /\ sent' = Append(sent, Last(chan'))
               /\ Last(chan').kind = "stats"]_vars

\* a tick has appended its Snap, found the channel full, and is back in its
\* sleep without its report
C16_Witness ==
  /\ print_mode = "both" /\ stats_pc = "sleep"
  /\ Len(timeline) = 1 /\ Last(timeline).total_msgs = 1
  /\ Len(chan) = cap /\ noffered > cap
  /\ \A i \in 1..Len(sent) : sent[i].kind # "stats"

\* the steps of the WS loop on one received text message: it is received, its
\* class is counted, its instrument id is inserted
Receiving == main_pc = "recv" /\ main_pc' \in {"count", "fwd"}

Counting == main_pc = "count" /\ main_pc' \in {"insert", "fwd"}

Inserting == main_pc = "insert" /\ main_pc' = "fwd"

\* C17: receiving a text message raises total_msgs by exactly 1 and changes
\* nothing else of the counter store, whatever the message is; a live event
\* then raises live_msgs by exactly 1 and, if it names an instrument, adds it
\* to live_instruments; a snapshot event then raises snap_msgs by exactly 1
\* and, if it names an instrument, adds it to snap_instruments; each of these
\* steps changes nothing else of the counter store, any other message goes
\* straight to the forwarding step, and no step of the main task changes the
\* timeline.
C17_IngestionFrame ==
  /\ [][Receiving =>
          /\ total_msgs' = total_msgs + 1
          /\ UNCHANGED <<live_msgs, snap_msgs, live_instruments, snap_instruments>>
          /\ main_pc' = (IF txt'.ev \in {"book", "get_last_event"} THEN "count" ELSE "fwd")]_vars
  /\ [][Counting =>
          /\ txt.ev = "book" => (live_msgs' = live_msgs + 1 /\ snap_msgs' = snap_msgs)
          /\ txt.ev = "get_last_event" =>
               (snap_msgs' = snap_msgs + 1 /\ live_msgs' = live_msgs)
          /\ txt.ev \in {"book", "get_last_event"}
          /\ UNCHANGED <<total_msgs, live_instruments, snap_instruments>>
          /\ main_pc' = (IF txt.symb \in Instruments THEN "insert" ELSE "fwd")]_vars
  /\ [][Inserting =>
          /\ txt.symb \in Instruments
          /\ txt.ev = "book" =>
               /\ live_instruments' = live_instruments \cup {txt.symb}
               /\ snap_instruments' = snap_instruments
          /\ txt.ev = "get_last_event" =>
               /\ snap_instruments' = snap_instruments \cup {txt.symb}
               /\ live_instruments' = live_instruments
          /\ txt.ev \in {"book", "get_last_event"}
          /\ UNCHANGED <<total_msgs, live_msgs, snap_msgs>>]_vars
  /\ [][storeVars' # storeVars => (Receiving \/ Counting \/ Inserting)]_vars
  /\ [][(main_pc' # main_pc \/ txt' # txt) => timeline' = timeline]_vars

\* a live event and then a snapshot event for the same instrument have been
\* handled
C17_Witness ==
  /\ main_pc = "fwd" /\ txt.ev = "get_last_event" /\ txt.symb \in Instruments
  /\ total_msgs = 2 /\ live_msgs = 1 /\ snap_msgs = 1
  /\ live_instruments = {txt.symb} /\ snap_instruments = {txt.symb}

\* C18: in every reachable state live_msgs + snap_msgs <= total_msgs,
\* |live_instruments| <= live_msgs and |snap_instruments| <= snap_msgs.
C18_StoreInvariants ==
  /\ live_msgs + snap_msgs <= total_msgs
  /\ Cardinality(live_instruments) <= live_msgs
  /\ Cardinality(snap_instruments) <= snap_msgs

\* the three bounds are met with equality after two classified messages for
\* different instruments, one of each class
C18_Witness ==
  /\ main_pc = "recv"
  /\ total_msgs = 2 /\ live_msgs = 1 /\ snap_msgs = 1
  /\ Cardinality(live_instruments) = 1 /\ Cardinality(snap_instruments) = 1
  /\ live_instruments # snap_instruments

\* C19: when the ticks are exactly 5 s apart the timeline never holds more
\* than 13 entries, their ages are 0, 5, 10, ... s counted from the newest,
\* the k-th tick leaves k entries for k <= 13, and every tick from the 13th
\* (at 65 s) on leaves exactly 13.
C19_TimelineSize ==
  lag = 0 =>
    /\ Len(timeline) <= 13
    /\ \A i \in 1..Len(timeline) :
         Last(timeline).t - timeline[i].t = (Len(timeline) - i) * TICK_SECS * Res
    /\ \A k \in 1..12 :
         (timeline # <<>> /\ Last(timeline).t = k * TICK_SECS * Res) => Len(timeline) = k
    /\ (timeline # <<>> /\ Last(timeline).t >= 13 * TICK_SECS * Res) => Len(timeline) = 13

\* the 14th tick has appended its Snap and dropped the first tick's
C19_Witness ==
  /\ lag = 0 /\ Len(timeline) = 13
  /\ Head(timeline).t = 2 * TICK_SECS * Res
  /\ Last(timeline).t = 14 * TICK_SECS * Res

\* the quantity each rate is taken of
RateField ==
  [mps_total |-> "total_msgs", mps_live |-> "live_msgs", mps_snap |-> "snap_msgs",
   ips_live |-> "live_insts", ips_snap |-> "snap_insts"]

\* the Snap appended by the tick before the running one
Previous == timeline[Len(timeline) - 1]

====
